---- MODULE Spec2Model ----
(***************************************************************************)
(* HR Resource Query Chatbot: the retrieval engine (HRChatbot in main.py)  *)
(* and the FastAPI handlers around it.                                     *)
(*                                                                         *)
(* Every handler is an `async def` without an await inside, so one handler *)
(* runs to completion on the event loop before the next one starts: each   *)
(* handler is one atomic action.  The response it produced is kept in      *)
(* `last` until the server has sent it (SendResponse).                     *)
(*                                                                         *)
(* Similarity scores are cosine similarities in [-1, 1]; they are kept as  *)
(* integer hundredths (0.3 is 30).  float(score) widens a float32 without  *)
(* changing its value, so the comparison with the threshold is a           *)
(* comparison of the score itself.                                         *)
(***************************************************************************)
EXTENDS Integers, Sequences, FiniteSets, TLC

VARIABLES
    phase,             \* "boot" | "serving" | "crashed"
    employees_file,    \* employees_data.json on disk
    OPENAI_API_KEY,    \* the environment variable, fixed for the process
    employees_data,    \* HRChatbot.employees_data
    faiss_index,       \* HRChatbot.faiss_index
    openai_client,     \* HRChatbot.openai_client
    last,              \* the request being answered and its response
    session_state,     \* st.session_state of the one browser session
    run                \* the script run of streamlit_app.py: its position,
                       \* the widget event that started it, the prompt in hand

vars == <<phase, employees_file, OPENAI_API_KEY, employees_data, faiss_index,
          openai_client, last, session_state, run>>

server == <<phase, employees_file, OPENAI_API_KEY, employees_data, faiss_index,
            openai_client, last>>

ui == <<session_state, run>>

-----------------------------------------------------------------------------
(* Bounds and program constants *)

MaxEmployees == 5

MaxMessages == 6

TopK == 5

Threshold == 30

FltLowest == -1000

TemplateTop == 3

SingleSkills == 5

MultiSkills == 3

TopSkills == 10

-----------------------------------------------------------------------------
(* Python values *)

None == [py |-> "None"]

NoneStr == "<None>"

Idle == [op |-> "idle"]

\* Truth value of an Optional[str]: None and "" are falsy.
Truthy(s) == s \notin {NoneStr, ""}

\* xs[i] with Python's negative indexing; InRange is the condition under
\* which it does not raise IndexError.
InRange(xs, i) == -Len(xs) <= i /\ i < Len(xs)

PyIndex(xs, i) == IF i >= 0 THEN xs[i + 1] ELSE xs[Len(xs) + i + 1]

\* xs[:k]
Slice(xs, k) == SubSeq(xs, 1, IF Len(xs) < k THEN Len(xs) ELSE k)

\* sep.join(xs): the items in order with the separator between them.
Join(sep, xs) == [sep |-> sep, items |-> xs]

\* Whether a call trace names the callee.
Called(calls, callee) == \E i \in 1..Len(calls) : calls[i] = callee

Return(v) == [raised |-> FALSE, value |-> v, exc |-> ""]

Raise(e) == [raised |-> TRUE, value |-> <<>>, exc |-> e]

-----------------------------------------------------------------------------
(* The corpus *)

SkillPool == <<"Python", "React", "AWS", "Docker", "Java", "SQL">>

ProjectPool == <<"Healthcare Dashboard", "E-commerce Platform", "ML Pipeline">>

SkillsOf(i) ==
    [j \in 1..((i * 5) % 7) |-> SkillPool[((i + j - 2) % Len(SkillPool)) + 1]]

Employee(i) ==
    [id               |-> i,
     name             |-> "Employee " \o ToString(i),
     skills           |-> SkillsOf(i),
     experience_years |-> ((i - 1) * 3) % 8,
     projects         |-> SubSeq(ProjectPool, 1, ((i + 1) % 3) + 1),
     department       |-> IF i % 2 = 1 THEN "Engineering" ELSE "Data Science",
     specialization   |-> IF i % 3 = 0 THEN "DevOps"
                          ELSE IF i % 3 = 1 THEN "Backend" ELSE "Machine Learning",
     certifications   |-> IF i % 2 = 0 THEN <<"AWS Certified">> ELSE <<>>,
     availability     |-> IF i % 3 = 0 THEN "busy" ELSE "available"]

Corpus(n) == [i \in 1..n |-> Employee(i)]

Files ==
    {[exists |-> FALSE, employees |-> <<>>]}
        \cup {[exists |-> TRUE, employees |-> Corpus(n)] : n \in 0..MaxEmployees}

EnvKeys == {NoneStr, "sk-test"}

Queries == {"python developers", "healthcare projects"}

SessionIds == {NoneStr, "session_1"}

Scores == {-100, 30, 31, 100}

GenOutcomes == {"ok", "Timeout", "APIError"}

-----------------------------------------------------------------------------
(* HRChatbot: construction *)

Openai == [py |-> "openai"]

\* load_employee_data: a missing file is logged and gives the empty list.
load_employee_data(file) == IF file.exists THEN file.employees ELSE <<>>

\* setup_openai: the client is set only when the key is truthy.
setup_openai(api_key) == IF Truthy(api_key) THEN Openai ELSE None

\* setup_embeddings without the early return: embeddings.shape[1] of an
\* empty batch raises.
setup_embeddings_unguarded(data, encode_ok) ==
    IF ~encode_ok THEN Raise("EmbeddingFailure")
    ELSE IF data = <<>> THEN Raise("IndexError")
    ELSE Return([py |-> "IndexFlatIP", ntotal |-> Len(data)])

\* setup_embeddings: returns without building when there is no data;
\* model.encode raising ends the construction with that exception.
setup_embeddings(data, encode_ok) ==
    IF data = <<>> THEN Return(None)
    ELSE IF ~encode_ok THEN Raise("EmbeddingFailure")
    ELSE Return([py |-> "IndexFlatIP", ntotal |-> Len(data)])

-----------------------------------------------------------------------------
(* HRChatbot.search_employees *)

\* The outcome of model.encode([query]) seen through the index: either the
\* call raises, or every stored vector gets an inner product with the query.
Encodings(n) ==
    {[ok |-> FALSE, scores |-> <<>>]}
        \cup {[ok |-> TRUE, scores |-> f] : f \in [1..n -> Scores]}

RECURSIVE BestFirst(_, _)
BestFirst(scores, remaining) ==
    IF remaining = {} THEN <<>>
    ELSE LET best == CHOOSE i \in remaining :
                        \A j \in remaining :
                            \/ scores[i] > scores[j]
                            \/ scores[i] = scores[j] /\ i <= j
         IN  <<[score |-> scores[best], idx |-> best - 1]>>
                 \o BestFirst(scores, remaining \ {best})

\* faiss IndexFlatIP.search(q, k): exactly k (score, idx) pairs, the stored
\* vectors by decreasing inner product, and (-FLT_MAX, -1) in every slot
\* beyond the number of stored vectors.
IndexSearch(index, scores, k) ==
    LET found == Slice(BestFirst(scores, 1..index.ntotal), k)
    IN  found \o [i \in 1..(k - Len(found)) |-> [score |-> FltLowest, idx |-> -1]]

\* The same two lines without .copy(): the score is written into the
\* corpus record itself.
AliasAndScore(data, idx, score) ==
    LET employee == [similarity_score |-> score] @@ PyIndex(data, idx)
        at == IF idx >= 0 THEN idx + 1 ELSE Len(data) + idx + 1
    IN  [data |-> [data EXCEPT ![at] = employee], employee |-> employee]

\* employee = employees_data[idx].copy(); employee['similarity_score'] = score
\* The corpus keeps its record; the candidate is a new dict.
CopyAndScore(data, idx, score) ==
    [data     |-> data,
     employee |-> [similarity_score |-> score] @@ PyIndex(data, idx)]

\* The loop over zip(scores[0], indices[0]).
RECURSIVE PrepareResults(_, _, _)
PrepareResults(data, hits, results) ==
    IF hits = <<>> THEN [raised |-> FALSE, data |-> data, results |-> results]
    ELSE LET h == Head(hits)
         IN  IF h.idx < Len(data)
             THEN IF ~InRange(data, h.idx)
                  THEN [raised |-> TRUE, data |-> data, results |-> results]
                  ELSE LET c == CopyAndScore(data, h.idx, h.score)
                       IN  PrepareResults(c.data, Tail(hits),
                                          Append(results, c.employee))
             ELSE PrepareResults(data, Tail(hits), results)

AboveThreshold(emp) == emp.similarity_score > Threshold

RECURSIVE Reversed(_)
Reversed(xs) == IF xs = <<>> THEN <<>> ELSE Append(Reversed(Tail(xs)), Head(xs))

\* The filter building its list with insert(0, emp): the survivors come out
\* in the opposite order.
ThresholdFilterPrepending(results) == Reversed(SelectSeq(results, AboveThreshold))

AtOrAboveThreshold(emp) == emp.similarity_score >= Threshold

\* The filter written with >= 0.3.
ThresholdFilterInclusive(results) == SelectSeq(results, AtOrAboveThreshold)

\* results = [emp for emp in results if emp['similarity_score'] > 0.3]
ThresholdFilter(results) == SelectSeq(results, AboveThreshold)

Searched(raised, exc, value, data, calls, hits, prepared) ==
    [raised |-> raised, exc |-> exc, value |-> value, data |-> data,
     calls |-> calls, hits |-> hits, prepared |-> prepared]

\* search_employees with the Embedder's exception caught and answered by
\* an empty list.
search_employees_swallowing(query, top_k, enc) ==
    IF faiss_index = None
    THEN Searched(FALSE, "", <<>>, employees_data, <<>>, <<>>, <<>>)
    ELSE IF ~enc.ok
    THEN Searched(FALSE, "", <<>>, employees_data, <<"model.encode">>, <<>>, <<>>)
    ELSE LET hits == IndexSearch(faiss_index, enc.scores, top_k)
             loop == PrepareResults(employees_data, hits, <<>>)
         IN  Searched(loop.raised, IF loop.raised THEN "IndexError" ELSE "",
                      ThresholdFilter(loop.results), loop.data,
                      <<"model.encode", "faiss_index.search">>, hits, loop.results)

search_employees(query, top_k, enc) ==
    IF faiss_index = None
    THEN Searched(FALSE, "", <<>>, employees_data, <<>>, <<>>, <<>>)
    ELSE IF ~enc.ok
    THEN Searched(TRUE, "EmbeddingFailure", <<>>, employees_data,
                  <<"model.encode">>, <<>>, <<>>)
    ELSE LET hits == IndexSearch(faiss_index, enc.scores, top_k)
             loop == PrepareResults(employees_data, hits, <<>>)
             calls == <<"model.encode", "faiss_index.search">>
         IN  IF loop.raised
             THEN Searched(TRUE, "IndexError", <<>>, loop.data, calls, hits,
                           loop.results)
             ELSE Searched(FALSE, "", ThresholdFilter(loop.results), loop.data,
                           calls, hits, loop.results)

-----------------------------------------------------------------------------
(* HRChatbot: the response synthesizer *)

NoMatchMessage ==
    [kind |-> "fixed",
     text |-> "I couldn't find any employees matching your criteria. Please try a different search query."]

\* The narrative with the project list cut to two, as the UI shows it.
SingleNarrativeTwoProjects(query, emp) ==
    [kind             |-> "single",
     query            |-> query,
     name             |-> emp.name,
     experience_years |-> emp.experience_years,
     skills_text      |-> Join(", ", Slice(emp.skills, SingleSkills)),
     projects_text    |-> Join(", ", Slice(emp.projects, 2)),
     department       |-> emp.department,
     specialization   |-> emp.specialization,
     availability     |-> emp.availability]

\* The single-candidate narrative (the f-string of the first branch).
SingleNarrative(query, emp) ==
    [kind             |-> "single",
     query            |-> query,
     name             |-> emp.name,
     experience_years |-> emp.experience_years,
     skills_text      |-> Join(", ", Slice(emp.skills, SingleSkills)),
     projects_text    |-> Join(", ", emp.projects),
     department       |-> emp.department,
     specialization   |-> emp.specialization,
     availability     |-> emp.availability]

\* One numbered entry of the multi-candidate list.
ListEntry(i, emp) ==
    [number           |-> i,
     name             |-> emp.name,
     experience_years |-> emp.experience_years,
     skills_text      |-> Join(", ", Slice(emp.skills, MultiSkills)),
     specialization   |-> emp.specialization,
     availability     |-> emp.availability]

\* The remainder sentence guarded by >= 3.
RemainderInclusive(employees) ==
    IF Len(employees) >= TemplateTop
    THEN <<[more |-> Len(employees) - TemplateTop]>>
    ELSE <<>>

\* The remainder sentence: "I found {len - 3} more candidates. ..."
Remainder(employees) ==
    IF Len(employees) > TemplateTop
    THEN <<[more |-> Len(employees) - TemplateTop]>>
    ELSE <<>>

generate_template_response(query, employees) ==
    IF Len(employees) = 1
    THEN SingleNarrative(query, employees[1])
    ELSE LET top == Slice(employees, TemplateTop)
         IN  [kind      |-> "multi",
              query     |-> query,
              found     |-> Len(employees),
              entries   |-> [i \in 1..Len(top) |-> ListEntry(i, top[i])],
              remainder |-> Remainder(employees)]

Generated(calls, value) == [raised |-> FALSE, exc |-> "", value |-> value, calls |-> calls]

\* generate_openai_response without the except clause.
generate_openai_response_propagating(query, employees, gen) ==
    IF gen = "ok"
    THEN Generated(<<"generate_openai_response", "ChatCompletion.create">>,
                   [kind |-> "generated", text |-> "completion"])
    ELSE [raised |-> TRUE, exc |-> gen, value |-> <<>>,
          calls |-> <<"generate_openai_response", "ChatCompletion.create">>]

\* generate_openai_response: the whole body is inside try/except Exception;
\* any failure of the call is logged and answered from the template.
generate_openai_response(query, employees, gen) ==
    IF gen = "ok"
    THEN Generated(<<"generate_openai_response", "ChatCompletion.create">>,
                   [kind |-> "generated", text |-> "completion"])
    ELSE Generated(<<"generate_openai_response", "ChatCompletion.create",
                     "generate_template_response">>,
                   generate_template_response(query, employees))

\* generate_response without the client test: the generative call is always
\* tried.
generate_response_always_generative(query, relevant_employees, gen) ==
    IF relevant_employees = <<>>
    THEN Generated(<<>>, NoMatchMessage)
    ELSE generate_openai_response(query, relevant_employees, gen)

\* generate_response without the test for an empty candidate list.
generate_response_unguarded(query, relevant_employees, gen) ==
    IF openai_client # None /\ Truthy(OPENAI_API_KEY)
    THEN generate_openai_response(query, relevant_employees, gen)
    ELSE Generated(<<"generate_template_response">>,
                   generate_template_response(query, relevant_employees))

generate_response(query, relevant_employees, gen) ==
    IF relevant_employees = <<>>
    THEN Generated(<<>>, NoMatchMessage)
    ELSE IF openai_client # None /\ Truthy(OPENAI_API_KEY)
    THEN generate_openai_response(query, relevant_employees, gen)
    ELSE Generated(<<"generate_template_response">>,
                   generate_template_response(query, relevant_employees))

-----------------------------------------------------------------------------
(* The FastAPI handlers *)

\* raise HTTPException(status_code=..., detail=...)
HTTPException(status, detail) == [status |-> status, detail |-> detail, body |-> None]

OK(body) == [status |-> 200, detail |-> "", body |-> body]

\* POST /chat, after the search: an exception of the search, or of the
\* synthesizer, is answered with a 500 that carries its text.
chat_response(message, session_id, s, gen) ==
    IF s.raised
    THEN [http |-> HTTPException(500, s.exc), calls |-> <<>>]
    ELSE LET g == generate_response(message, s.value, gen)
         IN  IF g.raised
             THEN [http |-> HTTPException(500, g.exc), calls |-> g.calls]
             ELSE [http |-> OK([response   |-> g.value,
                                candidates |-> s.value,
                                session_id |-> IF Truthy(session_id)
                                               THEN session_id
                                               ELSE "default_session"]),
                   calls |-> g.calls]

\* str.lower(), str.strip(), str.split(',') and the substring test, on the
\* strings that occur as field values and as query parameters.
LowerOf ==
    {<<"Python", "python">>, <<"React", "react">>, <<"AWS", "aws">>,
     <<"Docker", "docker">>, <<"Java", "java">>, <<"SQL", "sql">>,
     <<"Engineering", "engineering">>, <<"Data Science", "data science">>,
     <<"Available", "available">>, <<"Eng", "eng">>}

Lower(str) ==
    IF \E p \in LowerOf : p[1] = str
    THEN (CHOOSE p \in LowerOf : p[1] = str)[2]
    ELSE str

Strip(str) == IF str = " react" THEN "react" ELSE str

Split(str) ==
    IF str = "Python, react" THEN <<"Python", " react">> ELSE <<str>>

SubstringOf ==
    {<<"eng", "engineering">>, <<"data", "data science">>, <<"", "engineering">>,
     <<"", "data science">>}

Contains(sub, str) == sub = str \/ <<sub, str>> \in SubstringOf

\* Truth value of an Optional[int], kept as <<>> (None) or <<n>>.
TruthyInt(x) == x # <<>> /\ x[1] # 0

Range(xs) == {xs[i] : i \in 1..Len(xs)}

HasSkill(emp, skill_list) ==
    \E skill \in Range(skill_list) :
        Lower(skill) \in {Lower(sk) : sk \in Range(emp.skills)}

\* GET /employees/search: each filter is applied only when its parameter is
\* truthy.
search_employees_endpoint(skills, experience_min, experience_max, department, availability) ==
    LET all == employees_data
        skill_list == [i \in 1..Len(Split(skills)) |-> Lower(Strip(Split(skills)[i]))]
        by_skill(emp) == HasSkill(emp, skill_list)
        f1 == IF Truthy(skills) THEN SelectSeq(all, by_skill) ELSE all
        at_least(emp) == emp.experience_years >= experience_min[1]
        f2 == IF TruthyInt(experience_min) THEN SelectSeq(f1, at_least) ELSE f1
        at_most(emp) == emp.experience_years <= experience_max[1]
        f3 == IF TruthyInt(experience_max) THEN SelectSeq(f2, at_most) ELSE f2
        in_dept(emp) == Contains(Lower(department), Lower(emp.department))
        f4 == IF Truthy(department) THEN SelectSeq(f3, in_dept) ELSE f3
        is_avail(emp) == Lower(emp.availability) = Lower(availability)
        f5 == IF Truthy(availability) THEN SelectSeq(f4, is_avail) ELSE f4
    IN  OK([employees |-> f5, count |-> Len(f5)])

\* GET /employees/{employee_id}: the 404 is raised inside the try block, whose
\* `except Exception` answers every exception with a 500 carrying its text.
get_employee_response(employee_id) ==
    LET found == SelectSeq(employees_data, LAMBDA emp : emp.id = employee_id)
        tried == IF found = <<>>
                 THEN Raise("404: Employee not found")
                 ELSE Return(found[1])
    IN  IF tried.raised
        THEN HTTPException(500, tried.exc)
        ELSE OK(tried.value)

RECURSIVE Flatten(_)
Flatten(xss) == IF xss = <<>> THEN <<>> ELSE Head(xss) \o Flatten(Tail(xss))

RECURSIVE FirstOccurrences(_, _)
FirstOccurrences(xs, seen) ==
    IF xs = <<>> THEN <<>>
    ELSE IF Head(xs) \in seen THEN FirstOccurrences(Tail(xs), seen)
    ELSE <<Head(xs)>> \o FirstOccurrences(Tail(xs), seen \cup {Head(xs)})

Occurrences(xs, x) == Cardinality({i \in 1..Len(xs) : xs[i] = x})

RECURSIVE Sum(_)
Sum(xs) == IF xs = <<>> THEN 0 ELSE Head(xs) + Sum(Tail(xs))

\* sorted(items, key=count, reverse=True): stable, by decreasing count.
RECURSIVE SortedByCount(_, _)
SortedByCount(keys, all) ==
    IF keys = <<>> THEN <<>>
    ELSE LET best == CHOOSE i \in 1..Len(keys) :
                        \A j \in 1..Len(keys) :
                            \/ Occurrences(all, keys[i]) > Occurrences(all, keys[j])
                            \/ /\ Occurrences(all, keys[i]) = Occurrences(all, keys[j])
                               /\ i <= j
             rest == [j \in 1..(Len(keys) - 1) |->
                         IF j < best THEN keys[j] ELSE keys[j + 1]]
         IN  <<[skill |-> keys[best], count |-> Occurrences(all, keys[best])]>>
                 \o SortedByCount(rest, all)

\* GET /stats: the average divides by len(employees).
get_stats_response ==
    LET employees == employees_data
        depts == [i \in 1..Len(employees) |-> employees[i].department]
        skills == Flatten([i \in 1..Len(employees) |-> employees[i].skills])
        years == [i \in 1..Len(employees) |-> employees[i].experience_years]
    IN  IF Len(employees) = 0
        THEN HTTPException(500, "division by zero")
        ELSE OK([total_employees |-> Len(employees),
                 departments     |-> [d \in Range(depts) |-> Occurrences(depts, d)],
                 top_skills      |-> Slice(SortedByCount(FirstOccurrences(skills, {}),
                                                         skills), TopSkills),
                 avg_experience  |-> [sum |-> Sum(years), len |-> Len(employees)]])

-----------------------------------------------------------------------------
(* streamlit_app.py *)

\* st.session_state before the first run: no key is set.
NoSession == [k \in {} |-> <<>>]

NoEvent == [kind |-> "none", text |-> ""]

NoRun == [pc |-> "idle", event |-> NoEvent, prompt |-> ""]

Has(state, key) == key \in DOMAIN state

\* st.session_state[key] = value
SetKey(state, key, value) ==
    [k \in DOMAIN state \cup {key} |-> IF k = key THEN value ELSE state[k]]

\* del st.session_state[key]
DelKey(state, key) == [k \in DOMAIN state \ {key} |-> state[k]]

\* HRChatbotUI.send_chat_message: the JSON body of a 200, an error dict for
\* any other status and for a RequestException.
send_chat_message(message, session_id, outcome) ==
    IF outcome = "200"
    THEN [response   |-> "reply to " \o message,
          candidates |-> <<>>,
          session_id |-> session_id]
    ELSE IF outcome = "500"
    THEN [error |-> "API Error: 500"]
    ELSE [error |-> "Connection Error"]

initialize_session_state(state) ==
    LET s1 == IF Has(state, "messages") THEN state
              ELSE SetKey(state, "messages", <<>>)
        s2 == IF Has(s1, "session_id") THEN s1
              ELSE SetKey(s1, "session_id", "session_t")
    IN  IF Has(s2, "chatbot") THEN s2 ELSE SetKey(s2, "chatbot", "HRChatbotUI")

\* process_user_message up to the call of the API: the user message is
\* appended.
process_user_message_begin(state, prompt) ==
    SetKey(state, "messages",
           Append(state["messages"], [role |-> "user", content |-> prompt]))

\* process_user_message from the API's answer on: the assistant message is
\* the error text or the reply with its candidates. "error: " stands for
\* the cross mark the f-string puts before the error.
process_user_message_finish(state, prompt, outcome) ==
    LET response == send_chat_message(prompt, state["session_id"], outcome)
    IN  IF Has(response, "error")
        THEN SetKey(state, "messages",
                    Append(state["messages"],
                           [role    |-> "assistant",
                            content |-> "error: " \o response["error"]]))
        ELSE SetKey(state, "messages",
                    Append(state["messages"],
                           [role       |-> "assistant",
                            content    |-> response["response"],
                            candidates |-> response["candidates"]]))

ExampleQueries == {"Show me cybersecurity experts"}

Prompts == {"who knows AWS?"}

ApiOutcomes == {"200", "500", "timeout"}

\* What starts a script run: the page load or a widget without a chat
\* effect, an example button, a submitted chat input.
Events ==
    {[kind |-> "widget", text |-> ""]}
        \cup {[kind |-> "example", text |-> q] : q \in ExampleQueries}
        \cup {[kind |-> "prompt", text |-> p] : p \in Prompts}

HistoryLen == IF Has(session_state, "messages") THEN Len(session_state["messages"]) ELSE 0

\* Room for the messages one more run can append: a stored example query
\* and a typed prompt, two messages each.
RoomForRun == HistoryLen + 4 <= MaxMessages

\* The browser reports a widget event while no run is in progress.
UserEvent ==
    /\ run.pc = "idle"
    /\ RoomForRun
    /\ \E e \in Events : run' = [pc |-> "start", event |-> e, prompt |-> ""]
    /\ UNCHANGED session_state
    /\ UNCHANGED server

\* A widget event arrives while the script is running: Streamlit ends the
\* run at the next st.* call (every position kept here is followed by one
\* before the next statement that changes session_state) and starts the
\* script again for the new event. session_state keeps what was written.
RerunWhileRunning ==
    /\ run.pc \in {"chat_shown", "example_sent", "chat_input", "prompt_sent"}
    /\ RoomForRun
    /\ \E e \in Events : run' = [pc |-> "start", event |-> e, prompt |-> ""]
    /\ UNCHANGED session_state
    /\ UNCHANGED server

\* main() down to the display of the history in render_chat: the session
\* keys are initialised and a clicked example button stores its query.
RenderChat ==
    /\ run.pc = "start"
    /\ LET state == initialize_session_state(session_state)
       IN  session_state' = IF run.event.kind = "example"
                            THEN SetKey(state, "example_query", run.event.text)
                            ELSE state
    /\ run' = [run EXCEPT !.pc = "chat_shown"]
    /\ UNCHANGED server

\* render_chat, "Handle example query": a stored query is taken out of the
\* session and handed to process_user_message.
HandleExampleQuery ==
    /\ run.pc = "chat_shown"
    /\ IF Has(session_state, "example_query")
       THEN LET query == session_state["example_query"]
            IN  /\ session_state' = process_user_message_begin(
                                        DelKey(session_state, "example_query"), query)
                /\ run' = [run EXCEPT !.pc = "example_sent", !.prompt = query]
       ELSE /\ run' = [run EXCEPT !.pc = "chat_input"]
            /\ UNCHANGED session_state
    /\ UNCHANGED server

\* The API call of the example query returns.
ExampleAnswered ==
    /\ run.pc = "example_sent"
    /\ \E outcome \in ApiOutcomes :
          session_state' = process_user_message_finish(session_state, run.prompt, outcome)
    /\ run' = [run EXCEPT !.pc = "chat_input", !.prompt = ""]
    /\ UNCHANGED server

\* main(), st.chat_input: a submitted prompt is handed to
\* process_user_message; without one the run ends.
ChatInput ==
    /\ run.pc = "chat_input"
    /\ IF run.event.kind = "prompt"
       THEN /\ session_state' = process_user_message_begin(session_state, run.event.text)
            /\ run' = [run EXCEPT !.pc = "prompt_sent", !.prompt = run.event.text]
       ELSE /\ run' = NoRun
            /\ UNCHANGED session_state
    /\ UNCHANGED server

\* The API call of the typed prompt returns; the run ends.
PromptAnswered ==
    /\ run.pc = "prompt_sent"
    /\ \E outcome \in ApiOutcomes :
          session_state' = process_user_message_finish(session_state, run.prompt, outcome)
    /\ run' = NoRun
    /\ UNCHANGED server

-----------------------------------------------------------------------------
(* The state machine *)

Init ==
    /\ phase = "boot"
    /\ employees_file \in Files
    /\ OPENAI_API_KEY \in EnvKeys
    /\ employees_data = <<>>
    /\ faiss_index = None
    /\ openai_client = None
    /\ last = Idle
    /\ session_state = NoSession
    /\ run = NoRun

\* chatbot = HRChatbot(): load the data, set up the client, build the index.
\* An exception of the Embedder ends the import of the module.
HRChatbot_init ==
    /\ phase = "boot"
    /\ \E encode_ok \in BOOLEAN :
          LET data == load_employee_data(employees_file)
              built == setup_embeddings(data, encode_ok)
          IN  /\ employees_data' = data
              /\ openai_client' = setup_openai(OPENAI_API_KEY)
              /\ faiss_index' = IF built.raised THEN None ELSE built.value
              /\ phase' = IF built.raised THEN "crashed" ELSE "serving"
    /\ UNCHANGED ui
    /\ UNCHANGED <<employees_file, OPENAI_API_KEY, last>>

chat_with_bot ==
    /\ phase = "serving"
    /\ last = Idle
    /\ \E message \in Queries, enc \in Encodings(Len(employees_data)) :
          LET s == search_employees(message, TopK, enc)
          IN  \E session_id \in SessionIds, gen \in GenOutcomes :
                 LET r == chat_response(message, session_id, s, gen)
                 IN  /\ employees_data' = s.data
                     /\ last' = [op         |-> "chat",
                                 message    |-> message,
                                 session_id |-> session_id,
                                 gen        |-> IF Called(r.calls, "ChatCompletion.create")
                                                THEN gen ELSE "not called",
                                 encode     |-> IF ~Called(s.calls, "model.encode")
                                                THEN "not called"
                                                ELSE IF enc.ok THEN "ok" ELSE "failed",
                                 search     |-> [calls    |-> s.calls,
                                                 hits     |-> s.hits,
                                                 prepared |-> s.prepared],
                                 calls      |-> r.calls,
                                 http       |-> r.http]
    /\ UNCHANGED ui
    /\ UNCHANGED <<phase, employees_file, OPENAI_API_KEY, faiss_index, openai_client>>

SkillQueries == {NoneStr, "Python, react", "cobol"}

MinQueries == {<<>>, <<0>>, <<3>>}

MaxQueries == {<<>>, <<0>>, <<4>>}

DepartmentQueries == {NoneStr, "Eng"}

AvailabilityQueries == {NoneStr, "Available"}

EmployeeIds == 0..(MaxEmployees + 1)

search_employees_route ==
    /\ phase = "serving"
    /\ last = Idle
    /\ \E skills \in SkillQueries, experience_min \in MinQueries,
          experience_max \in MaxQueries, department \in DepartmentQueries,
          availability \in AvailabilityQueries :
          last' = [op             |-> "search",
                   skills         |-> skills,
                   experience_min |-> experience_min,
                   experience_max |-> experience_max,
                   department     |-> department,
                   availability   |-> availability,
                   http           |-> search_employees_endpoint(
                                          skills, experience_min, experience_max,
                                          department, availability)]
    /\ UNCHANGED ui
    /\ UNCHANGED <<phase, employees_file, OPENAI_API_KEY, employees_data,
                   faiss_index, openai_client>>

get_employee ==
    /\ phase = "serving"
    /\ last = Idle
    /\ \E employee_id \in EmployeeIds :
          last' = [op          |-> "get_employee",
                   employee_id |-> employee_id,
                   http        |-> get_employee_response(employee_id)]
    /\ UNCHANGED ui
    /\ UNCHANGED <<phase, employees_file, OPENAI_API_KEY, employees_data,
                   faiss_index, openai_client>>

get_stats ==
    /\ phase = "serving"
    /\ last = Idle
    /\ last' = [op |-> "stats", http |-> get_stats_response]
    /\ UNCHANGED ui
    /\ UNCHANGED <<phase, employees_file, OPENAI_API_KEY, employees_data,
                   faiss_index, openai_client>>

\* The server sends the response; the handler's locals are gone.
SendResponse ==
    /\ phase = "serving"
    /\ last # Idle
    /\ last' = Idle
    /\ UNCHANGED ui
    /\ UNCHANGED <<phase, employees_file, OPENAI_API_KEY, employees_data,
                   faiss_index, openai_client>>

Next ==
    \/ HRChatbot_init
    \/ chat_with_bot
    \/ search_employees_route
    \/ get_employee
    \/ get_stats
    \/ SendResponse

Spec == Init /\ [][Next]_vars

\* The UI against a server it sees only through the outcome of its calls.
UIInit ==
    /\ phase = "boot"
    /\ employees_file = [exists |-> FALSE, employees |-> <<>>]
    /\ OPENAI_API_KEY = NoneStr
    /\ employees_data = <<>>
    /\ faiss_index = None
    /\ openai_client = None
    /\ last = Idle
    /\ session_state = NoSession
    /\ run = NoRun

UINext ==
    \/ UserEvent
    \/ RerunWhileRunning
    \/ RenderChat
    \/ HandleExampleQuery
    \/ ExampleAnswered
    \/ ChatInput
    \/ PromptAnswered

UISpec == UIInit /\ [][UINext]_vars

-----------------------------------------------------------------------------
(* Properties *)

ChatAnswered == last.op = "chat" /\ last.http.status = 200

Candidates == last.http.body.candidates

Response == last.http.body.response

Min(a, b) == IF a < b THEN a ELSE b

\* C1: no candidate returned by a chat query has similarity_score <= 0.3;
\* a candidate whose score is exactly 0.3 is excluded.
C1_NoCandidateAtOrBelowThreshold ==
    ChatAnswered =>
        \A i \in 1..Len(Candidates) : ~(Candidates[i].similarity_score <= Threshold)

\* A query in which one record scored exactly 0.3, one scored below it, and
\* one was returned.
C1_Witness ==
    /\ ChatAnswered
    /\ Candidates # <<>>
    /\ \E i \in 1..Len(last.search.hits) : last.search.hits[i].score = Threshold
    /\ \E i \in 1..Len(last.search.hits) : last.search.hits[i].score = -100

\* C2: with a non-empty candidate list the chat is answered with a text and
\* no error; when the generative call fails, the text is the template
\* response for the same query and candidates, and the failure is not in the
\* answer.
C2_GenerationFailureFallsBackToTemplate ==
    (last.op = "chat" /\ last.encode = "ok"
        /\ ThresholdFilter(last.search.prepared) # <<>>) =>
        /\ last.http.status = 200
        /\ last.http.detail = ""
        /\ Response.kind \in {"generated", "single", "multi"}
        /\ last.gen \notin {"ok", "not called"} =>
              Response = generate_template_response(last.message, Candidates)

C2_Witness ==
    /\ ChatAnswered
    /\ last.gen = "Timeout"
    /\ Len(Candidates) = 2
    /\ Response.kind = "multi"

\* C3: construction with an empty record set succeeds and leaves the index
\* unbuilt; every chat query afterwards is answered with no candidates and
\* the fixed no-match reply.
C3_EmptyCorpusAnswersNoMatch ==
    (phase # "boot" /\ load_employee_data(employees_file) = <<>>) =>
        /\ phase = "serving"
        /\ employees_data = <<>>
        /\ faiss_index = None
        /\ last.op = "chat" =>
              /\ last.http.status = 200
              /\ Candidates = <<>>
              /\ Response = NoMatchMessage

C3_Witness ==
    /\ employees_file.exists
    /\ employees_file.employees = <<>>
    /\ ChatAnswered
    /\ Response = NoMatchMessage

\* C4: when top_k exceeds the number of indexed records, the pairs the index
\* search returns for the missing slots are not mapped onto an employee
\* record: the mapped results hold every indexed record exactly once.
C4_PaddingIsNotMappedToARecord ==
    (last.op = "chat" /\ last.encode = "ok" /\ TopK > faiss_index.ntotal) =>
        /\ Len(last.search.prepared) = faiss_index.ntotal
        /\ \A i, j \in 1..Len(last.search.prepared) :
              last.search.prepared[i].id = last.search.prepared[j].id => i = j

\* C5: after the build no handler changes the corpus or the index: the
\* records are those loaded, none has a similarity_score, and the index
\* holds as many entries as the corpus.
C5_CorpusAndIndexAreReadOnly ==
    phase = "serving" =>
        /\ employees_data = load_employee_data(employees_file)
        /\ \A i \in 1..Len(employees_data) :
              "similarity_score" \notin DOMAIN employees_data[i]
        /\ IF employees_data = <<>>
           THEN faiss_index = None
           ELSE faiss_index # None /\ faiss_index.ntotal = Len(employees_data)

\* A chat query has just returned scored candidates.
C5_Witness ==
    /\ ChatAnswered
    /\ Len(Candidates) >= 2
    /\ \A i \in 1..Len(Candidates) : "similarity_score" \in DOMAIN Candidates[i]

\* C6: a failure of the Embedder during a query is answered with a 500 that
\* carries the failure and no reply; a chat call ends either with a complete
\* (response, candidates, session_id) or with an error, never both, never
\* neither.
C6_EmbeddingFailureIsExplicit ==
    last.op = "chat" =>
        /\ last.encode = "failed" =>
              /\ last.http.status = 500
              /\ last.http.detail = "EmbeddingFailure"
              /\ last.http.body = None
        /\ \/ /\ last.http.status = 200
              /\ last.http.detail = ""
              /\ last.http.body # None
              /\ DOMAIN last.http.body = {"response", "candidates", "session_id"}
           \/ /\ last.http.status = 500
              /\ last.http.detail # ""
              /\ last.http.body = None

C6_Witness ==
    /\ last.op = "chat"
    /\ last.encode = "failed"
    /\ last.http.status = 500

\* C7: without an API key at startup the client is never set, and every chat
\* with candidates is answered from the template without trying the
\* generative call; the answer is a normal one.
C7_NoKeyMeansTemplateOnly ==
    (phase = "serving" /\ ~Truthy(OPENAI_API_KEY)) =>
        /\ openai_client = None
        /\ (last.op = "chat" /\ last.encode = "ok"
                /\ ThresholdFilter(last.search.prepared) # <<>>) =>
              /\ last.http.status = 200
              /\ last.calls = <<"generate_template_response">>
              /\ Response = generate_template_response(last.message, Candidates)

C7_Witness ==
    /\ ~Truthy(OPENAI_API_KEY)
    /\ ChatAnswered
    /\ Len(Candidates) = 3
    /\ Response.kind = "multi"

TemplateUsed == ChatAnswered /\ Called(last.calls, "generate_template_response")

\* C8: for n >= 2 candidates the template lists exactly the first min(n, 3)
\* in ranked order, numbered from 1, each with at most its first 3 skills,
\* and has the remainder sentence, stating n - 3, if and only if n > 3.
C8_MultiTemplateListsTopThree ==
    (TemplateUsed /\ Len(Candidates) >= 2) =>
        LET n == Len(Candidates)
            m == Min(n, 3)
        IN  /\ Response.kind = "multi"
            /\ Len(Response.entries) = m
            /\ \A i \in 1..m :
                  LET entry == Response.entries[i]
                      shown == entry.skills_text.items
                  IN  /\ entry.number = i
                      /\ entry.name = Candidates[i].name
                      /\ Len(shown) = Min(Len(Candidates[i].skills), 3)
                      /\ \A j \in 1..Len(shown) : shown[j] = Candidates[i].skills[j]
            /\ (Response.remainder # <<>>) <=> (n > 3)
            /\ n > 3 => Response.remainder = <<[more |-> n - 3]>>

\* Five candidates: the top 3 and "2 more".
C8_Witness ==
    /\ TemplateUsed
    /\ Len(Candidates) = 5
    /\ Len(Response.entries) = 3
    /\ Response.remainder = <<[more |-> 2]>>

\* C9: for exactly one candidate the template is the single-candidate
\* narrative: the name, the experience, at most the first 5 skills, every
\* project in order, department, specialization and availability, with no
\* numbered list and no remainder sentence.
C9_SingleTemplateIsTheNarrative ==
    (TemplateUsed /\ Len(Candidates) = 1) =>
        LET emp == Candidates[1]
            shown == Response.skills_text.items
        IN  /\ Response.kind = "single"
            /\ Response.name = emp.name
            /\ Response.experience_years = emp.experience_years
            /\ Len(shown) = Min(Len(emp.skills), 5)
            /\ \A j \in 1..Len(shown) : shown[j] = emp.skills[j]
            /\ Response.projects_text.items = emp.projects
            /\ Response.department = emp.department
            /\ Response.specialization = emp.specialization
            /\ Response.availability = emp.availability
            /\ "entries" \notin DOMAIN Response
            /\ "remainder" \notin DOMAIN Response

\* The one candidate has more than 5 skills and 3 projects.
C9_Witness ==
    /\ TemplateUsed
    /\ Len(Candidates) = 1
    /\ Len(Candidates[1].skills) > 5
    /\ Len(Candidates[1].projects) = 3
    /\ Len(Response.skills_text.items) = 5

\* C10: with zero candidates the reply is the one fixed message, whatever
\* the query text and the collaborator configuration, and neither the
\* generative call nor the template is invoked.
C10_NoCandidatesFixedMessage ==
    (ChatAnswered /\ Candidates = <<>>) =>
        /\ Response = NoMatchMessage
        /\ last.calls = <<>>

\* No record passed the threshold, with the index built and the generative
\* collaborator configured.
C10_Witness ==
    /\ ChatAnswered
    /\ Candidates = <<>>
    /\ faiss_index # None
    /\ openai_client # None
    /\ Response = NoMatchMessage

\* The hits of the index search that pass the threshold, in the order the
\* index returned them.
PassingHits == SelectSeq(last.search.hits, LAMBDA h : h.score > Threshold)

\* C11: the candidates of a chat query are in non-increasing order of
\* similarity_score, and they are the index hits above the threshold in the
\* order of the index search result.
C11_CandidatesKeepDescendingOrder ==
    ChatAnswered =>
        /\ \A i, j \in 1..Len(Candidates) :
              i < j => Candidates[i].similarity_score >= Candidates[j].similarity_score
        /\ Len(Candidates) = Len(PassingHits)
        /\ \A i \in 1..Len(Candidates) :
              /\ Candidates[i].id = employees_data[PassingHits[i].idx + 1].id
              /\ Candidates[i].similarity_score = PassingHits[i].score

\* Two candidates with different scores were returned and a hit at the
\* threshold was removed.
C11_Witness ==
    /\ ChatAnswered
    /\ Len(Candidates) >= 2
    /\ Candidates[1].similarity_score = 100
    /\ Candidates[Len(Candidates)].similarity_score = 31
    /\ \E i \in 1..Len(last.search.hits) : last.search.hits[i].score = Threshold

RequestedSkills(skills) == {Lower(Strip(t)) : t \in Range(Split(skills))}

\* An employee satisfies every filter the request supplies.
SatisfiesFilters(emp, req) ==
    /\ req.skills # NoneStr =>
          \E sk \in Range(emp.skills) : Lower(sk) \in RequestedSkills(req.skills)
    /\ req.experience_min # <<>> => emp.experience_years >= req.experience_min[1]
    /\ req.experience_max # <<>> => emp.experience_years <= req.experience_max[1]
    /\ req.department # NoneStr =>
          Contains(Lower(req.department), Lower(emp.department))
    /\ req.availability # NoneStr =>
          Lower(emp.availability) = Lower(req.availability)

\* C12: GET /employees/search returns exactly the corpus employees that
\* satisfy every supplied filter, and count is their number, also for
\* experience_min = 0 and experience_max = 0.
C12_SearchReturnsExactlyTheMatches ==
    last.op = "search" =>
        /\ last.http.status = 200
        /\ \A i \in 1..Len(last.http.body.employees) :
              SatisfiesFilters(last.http.body.employees[i], last)
        /\ \A i \in 1..Len(employees_data) :
              SatisfiesFilters(employees_data[i], last) =>
                  employees_data[i] \in Range(last.http.body.employees)
        /\ last.http.body.count = Len(last.http.body.employees)

RECURSIVE SumOver(_, _)
SumOver(f, keys) ==
    IF keys = {} THEN 0
    ELSE LET k == CHOOSE x \in keys : TRUE
         IN  f[k] + SumOver(f, keys \ {k})

\* C13: GET /stats answers 200 for every corpus the service starts with, the
\* empty one included; total_employees is the number of loaded records and
\* the department counts add up to it.
C13_StatsSucceedsForEveryCorpus ==
    last.op = "stats" =>
        /\ last.http.status = 200
        /\ last.http.body.total_employees = Len(employees_data)
        /\ SumOver(last.http.body.departments, DOMAIN last.http.body.departments)
              = last.http.body.total_employees

\* C14: GET /employees/{employee_id} returns the record with that id when
\* there is one, and answers 404 "Employee not found" when there is none.
C14_UnknownEmployeeIs404 ==
    last.op = "get_employee" =>
        IF \E i \in 1..Len(employees_data) : employees_data[i].id = last.employee_id
        THEN /\ last.http.status = 200
             /\ last.http.body.id = last.employee_id
        ELSE /\ last.http.status = 404
             /\ last.http.detail = "Employee not found"

Messages == IF Has(session_state, "messages") THEN session_state["messages"] ELSE <<>>

\* C15: whenever the script is not running, the chat history alternates
\* user, assistant, starting with user: every prompt taken up (typed or an
\* example query) has left one user message followed by one assistant
\* message, and no example query is left in the session to be taken up again.
C15_HistoryAlternates ==
    run.pc = "idle" =>
        /\ Len(Messages) % 2 = 0
        /\ \A i \in 1..Len(Messages) :
              Messages[i].role = IF i % 2 = 1 THEN "user" ELSE "assistant"
        /\ ~Has(session_state, "example_query")

====
